---- MODULE Spec2Model ----
(***************************************************************************)
(* A model of trading_bot.py: the BasicBot wrapper around the exchange     *)
(* client (construction, symbol validation, the three order-placement      *)
(* methods, get_open_orders, cancel_order) and the interactive loop of     *)
(* main().  The exchange is the environment: every remote call either      *)
(* returns a response or raises, chosen nondeterministically.              *)
(*                                                                         *)
(* Python strings are sequences of one-character strings, so that          *)
(* str.upper, str.lower and str.strip are computed and not assumed.        *)
(* Python values are records tagged by their type in field t.              *)
(***************************************************************************)
EXTENDS Integers, Sequences, FiniteSets, TLC

VARIABLES
    client,        \* self.client: the handle created by the constructor, or "unset"
    clientCount,   \* how many times Client(...) has been called
    accountOk,     \* a futures_account call has returned without raising
    pc,            \* position of main(): "start", "input", "dispatch", "ask", "exit"; "new", "lib", "returned", "noobject" when the wrapper is driven directly
    order_params,  \* the dict returned by get_user_input
    typed,         \* what the user typed in this iteration: the lines and the prompt of a Ctrl-C
    exitStatus,    \* process exit status once pc = "exit"; -1 while running
    last,          \* the latest wrapper invocation: method, args, remote calls, result
    log            \* logger records and prompts emitted by the latest step

vars == <<client, clientCount, accountOk, pc, order_params, typed, exitStatus, last, log>>

----------------------------------------------------------------------------
(* Bounds of the model *)

\* numeric arguments and exchange timestamps range over -1 .. MaxNum
MaxNum == 2

----------------------------------------------------------------------------
(* Python strings *)

LowerLetters == <<"a","b","c","d","e","f","g","h","i","j","k","l","m",
                  "n","o","p","q","r","s","t","u","v","w","x","y","z">>
UpperLetters == <<"A","B","C","D","E","F","G","H","I","J","K","L","M",
                  "N","O","P","Q","R","S","T","U","V","W","X","Y","Z">>

upper_ch(c) ==
    IF \E i \in 1..Len(LowerLetters) : LowerLetters[i] = c
    THEN UpperLetters[CHOOSE i \in 1..Len(LowerLetters) : LowerLetters[i] = c]
    ELSE c

lower_ch(c) ==
    IF \E i \in 1..Len(UpperLetters) : UpperLetters[i] = c
    THEN LowerLetters[CHOOSE i \in 1..Len(UpperLetters) : UpperLetters[i] = c]
    ELSE c

\* str.upper()
upper(s) == [i \in 1..Len(s) |-> upper_ch(s[i])]

\* str.lower()
lower(s) == [i \in 1..Len(s) |-> lower_ch(s[i])]

RECURSIVE lstrip(_)
lstrip(s) == IF s # <<>> /\ Head(s) = " " THEN lstrip(Tail(s)) ELSE s

RECURSIVE rstrip(_)
rstrip(s) == IF s # <<>> /\ s[Len(s)] = " " THEN rstrip(SubSeq(s, 1, Len(s) - 1)) ELSE s

\* str.strip()
strip(s) == rstrip(lstrip(s))

\* string literals of the program
BUY == <<"B","U","Y">>
SELL == <<"S","E","L","L">>
MARKET == <<"M","A","R","K","E","T">>
LIMIT == <<"L","I","M","I","T">>
STOP == <<"S","T","O","P">>
GTC == <<"G","T","C">>

----------------------------------------------------------------------------
(* Python values *)

PyNone == [t |-> "NoneType"]
PyStr(s) == [t |-> "str", s |-> s]
PyFloat(n) == [t |-> "float", v |-> n]
PyNaN == [t |-> "float", nan |-> TRUE]
PyInt(n) == [t |-> "int", v |-> n]
PyBool(b) == [t |-> "bool", b |-> b]
PyList(items) == [t |-> "list", items |-> items]

IsStr(x) == x.t = "str"
IsNaN(x) == x.t = "float" /\ "nan" \in DOMAIN x

\* the Python expression  x <= 0 : "True", "False", or the exception it raises
\* (an ordering comparison with nan is False; None or a str against an int
\* raises TypeError)
le_zero(x) ==
    IF x.t \notin {"float", "int"} THEN "TypeError"
    ELSE IF IsNaN(x) THEN "False"
    ELSE IF x.v <= 0 THEN "True" ELSE "False"

\* truth value of an Optional[str] argument ( if symbol: )
truthy(x) ==
    CASE x.t = "NoneType" -> FALSE
      [] x.t = "str" -> x.s # <<>>
      [] x.t \in {"int", "float"} -> IsNaN(x) \/ x.v # 0
      [] OTHER -> TRUE

----------------------------------------------------------------------------
(* Exceptions.  attrs are the attributes the except clauses read. *)

NoExc == [cls |-> "none", attrs |-> {}, msg |-> ""]
Exc(cls, msg) == [cls |-> cls, attrs |-> {}, msg |-> msg]

\* binance.exceptions.BinanceAPIException carries status_code, message, code
BinanceAPIException ==
    [cls |-> "BinanceAPIException", attrs |-> {"status_code", "message", "code"},
     msg |-> "APIError"]

\* binance.exceptions.BinanceOrderException carries code and message only
BinanceOrderException ==
    [cls |-> "BinanceOrderException", attrs |-> {"code", "message"},
     msg |-> "BinanceOrderException"]

\* what a remote call can raise
RemoteExceptions ==
    {BinanceAPIException, BinanceOrderException, Exc("ConnectionError", "connection lost")}

----------------------------------------------------------------------------
(* Remote calls and method results *)

Returns(v) == [ok |-> TRUE, value |-> v]
Raises(e) == [ok |-> FALSE, exc |-> e]

\* one call on the client handle: the API method, its keyword arguments and
\* what the exchange answered
Call(api, kwargs, res) == [api |-> api, kwargs |-> kwargs, res |-> res]

NoKwargs == [none |-> TRUE]
NoReturn == [t |-> "noreturn"]

Info(msg) == [level |-> "INFO", msg |-> msg]
Error(msg, detail) == [level |-> "ERROR", msg |-> msg, detail |-> detail]

\* a finished method: the remote calls it made, what it logged, and either
\* the value it returned (exc = NoExc) or the exception it let escape
Result(calls, lg, ret, exc) == [calls |-> calls, log |-> lg, ret |-> ret, exc |-> exc]
Raised(r) == r.exc # NoExc

----------------------------------------------------------------------------
(* BasicBot helpers *)

\* a variant that repeats a failed lookup once
_validate_symbol_retry(symbol, info) ==
    LET call == Call("futures_exchange_info", NoKwargs, info) IN
    IF ~info.ok \/ "symbols" \notin DOMAIN info.value
    THEN Result(<<call, call>>, <<Error("Symbol validation failed", "")>>, FALSE, NoExc)
    ELSE Result(<<call>>, <<>>,
                \E i \in 1..Len(info.value.symbols) : info.value.symbols[i] = upper(symbol),
                NoExc)

\* BasicBot._validate_symbol: one exchange-info lookup; a failed lookup (or a
\* response without a 'symbols' list) is logged and counts as invalid
_validate_symbol(symbol, info) ==
    LET call == Call("futures_exchange_info", NoKwargs, info) IN
    IF ~info.ok
    THEN Result(<<call>>, <<Error("Symbol validation failed", info.exc.msg)>>, FALSE, NoExc)
    ELSE IF "symbols" \notin DOMAIN info.value
    THEN Result(<<call>>, <<Error("Symbol validation failed", "'symbols'")>>, FALSE, NoExc)
    ELSE Result(<<call>>, <<>>,
                \E i \in 1..Len(info.value.symbols) : info.value.symbols[i] = upper(symbol),
                NoExc)

\* BasicBot._log_order_details: order.get(...) on each field; the Time line
\* divides order.get('updateTime', 0) by 1000 and converts it to a datetime
_log_order_details(order) ==
    LET head == <<Info("ORDER EXECUTED SUCCESSFULLY")>>
        ut == IF "updateTime" \in DOMAIN order THEN order.updateTime ELSE PyInt(0)
    IN  IF order.t # "dict"
        THEN Result(<<>>, <<>>, NoReturn,
                    Exc("AttributeError", "object has no attribute 'get'"))
        ELSE IF ut.t \notin {"int", "float"}
        THEN Result(<<>>, head, NoReturn,
                    Exc("TypeError", "unsupported operand type(s) for /"))
        ELSE IF IsNaN(ut)
        THEN Result(<<>>, head, NoReturn,
                    Exc("ValueError", "cannot convert float NaN to integer"))
        ELSE Result(<<>>, head \o <<Info("Time")>>, PyNone, NoExc)

\* a  or  chain of  x <= 0  tests, evaluated left to right with short circuit
RECURSIVE any_le_zero(_)
any_le_zero(xs) ==
    IF xs = <<>> THEN "False"
    ELSE LET h == le_zero(Head(xs)) IN
         IF h = "False" THEN any_le_zero(Tail(xs)) ELSE h

\* the except clauses shared by the three placement methods: the two Binance
\* handlers format e.status_code and e.message, the last one str(e)
order_except(r, what) ==
    LET e == r.exc IN
    IF e = NoExc THEN r
    ELSE IF e.cls = "BinanceAPIException"
    THEN IF {"status_code", "message"} \subseteq e.attrs
         THEN Result(r.calls, r.log \o <<Error("Binance API Error", e.msg)>>, PyNone, NoExc)
         ELSE Result(r.calls, r.log, NoReturn,
                     Exc("AttributeError", "object has no attribute 'status_code'"))
    ELSE IF e.cls = "BinanceOrderException"
    THEN IF {"status_code", "message"} \subseteq e.attrs
         THEN Result(r.calls, r.log \o <<Error("Order Error", e.msg)>>, PyNone, NoExc)
         ELSE Result(r.calls, r.log, NoReturn,
                     Exc("AttributeError", "object has no attribute 'status_code'"))
    ELSE Result(r.calls, r.log \o <<Error(what, e.msg)>>, PyNone, NoExc)

\* the tail of each placement method's try block: the order-creation call,
\* then _log_order_details(order) and  return order
create_order(prefix, kwargs, create, placing) ==
    LET call == Call("futures_create_order", kwargs, create)
        calls == prefix.calls \o <<call>>
        lg == prefix.log \o placing
    IN  IF ~create.ok
        THEN Result(calls, lg, NoReturn, create.exc)
        ELSE LET d == _log_order_details(create.value) IN
             IF Raised(d)
             THEN Result(calls, lg \o d.log, NoReturn, d.exc)
             ELSE Result(calls, lg \o d.log, create.value, NoExc)

----------------------------------------------------------------------------
(* BasicBot public methods.  env.info is what the exchange answers to the    *)
(* exchange-info lookup, env.create what it answers to the order creation.   *)

\* symbol.upper() / side.upper() at the head of each try block
no_upper(x) == Exc("AttributeError", "object has no attribute 'upper'")

\* the keyword arguments of the three futures_create_order calls
market_kwargs(sym, sd, quantity) ==
    [symbol |-> PyStr(sym), side |-> PyStr(sd), type |-> PyStr(MARKET),
     quantity |-> quantity]

limit_kwargs(sym, sd, quantity, price) ==
    [symbol |-> PyStr(sym), side |-> PyStr(sd), type |-> PyStr(LIMIT),
     timeInForce |-> PyStr(GTC), quantity |-> quantity, price |-> price]

stop_limit_kwargs_swapped(sym, sd, quantity, stop_price, limit_price) ==
    [symbol |-> PyStr(sym), side |-> PyStr(sd), type |-> PyStr(STOP),
     timeInForce |-> PyStr(GTC), quantity |-> quantity, price |-> stop_price,
     stopPrice |-> limit_price]

stop_limit_kwargs(sym, sd, quantity, stop_price, limit_price) ==
    [symbol |-> PyStr(sym), side |-> PyStr(sd), type |-> PyStr(STOP),
     timeInForce |-> PyStr(GTC), quantity |-> quantity, price |-> limit_price,
     stopPrice |-> stop_price]

\* BasicBot.place_market_order
place_market_order(symbol, side, quantity, env) ==
    LET body ==
        IF ~IsStr(symbol) THEN Result(<<>>, <<>>, NoReturn, no_upper(symbol))
        ELSE IF ~IsStr(side) THEN Result(<<>>, <<>>, NoReturn, no_upper(side))
        ELSE
        LET sym == upper(symbol.s)
            sd == upper(side.s)
            v == _validate_symbol(sym, env.info)
            positive == any_le_zero(<<quantity>>)
        IN  IF ~v.ret
            THEN Result(v.calls, v.log, NoReturn, Exc("ValueError", "Invalid symbol"))
            ELSE IF sd \notin {BUY, SELL}
            THEN Result(v.calls, v.log, NoReturn,
                        Exc("ValueError", "Side must be 'BUY' or 'SELL'"))
            ELSE IF positive = "TypeError"
            THEN Result(v.calls, v.log, NoReturn, Exc("TypeError", "'<=' not supported"))
            ELSE IF positive = "True"
            THEN Result(v.calls, v.log, NoReturn,
                        Exc("ValueError", "Quantity must be positive"))
            ELSE create_order(v, market_kwargs(sym, sd, quantity),
                              env.create, <<Info("Placing MARKET order")>>)
    IN  order_except(body, "Unexpected error placing market order")

\* BasicBot.place_limit_order
place_limit_order(symbol, side, quantity, price, env) ==
    LET body ==
        IF ~IsStr(symbol) THEN Result(<<>>, <<>>, NoReturn, no_upper(symbol))
        ELSE IF ~IsStr(side) THEN Result(<<>>, <<>>, NoReturn, no_upper(side))
        ELSE
        LET sym == upper(symbol.s)
            sd == upper(side.s)
            v == _validate_symbol(sym, env.info)
            positive == any_le_zero(<<quantity, price>>)
        IN  IF ~v.ret
            THEN Result(v.calls, v.log, NoReturn, Exc("ValueError", "Invalid symbol"))
            ELSE IF sd \notin {BUY, SELL}
            THEN Result(v.calls, v.log, NoReturn,
                        Exc("ValueError", "Side must be 'BUY' or 'SELL'"))
            ELSE IF positive = "TypeError"
            THEN Result(v.calls, v.log, NoReturn, Exc("TypeError", "'<=' not supported"))
            ELSE IF positive = "True"
            THEN Result(v.calls, v.log, NoReturn,
                        Exc("ValueError", "Quantity and price must be positive"))
            ELSE create_order(v, limit_kwargs(sym, sd, quantity, price),
                              env.create, <<Info("Placing LIMIT order")>>)
    IN  order_except(body, "Unexpected error placing limit order")

\* BasicBot.place_stop_limit_order
place_stop_limit_order(symbol, side, quantity, stop_price, limit_price, env) ==
    LET body ==
        IF ~IsStr(symbol) THEN Result(<<>>, <<>>, NoReturn, no_upper(symbol))
        ELSE IF ~IsStr(side) THEN Result(<<>>, <<>>, NoReturn, no_upper(side))
        ELSE
        LET sym == upper(symbol.s)
            sd == upper(side.s)
            v == _validate_symbol(sym, env.info)
            positive == any_le_zero(<<quantity, stop_price, limit_price>>)
        IN  IF ~v.ret
            THEN Result(v.calls, v.log, NoReturn, Exc("ValueError", "Invalid symbol"))
            ELSE IF sd \notin {BUY, SELL}
            THEN Result(v.calls, v.log, NoReturn,
                        Exc("ValueError", "Side must be 'BUY' or 'SELL'"))
            ELSE IF positive = "TypeError"
            THEN Result(v.calls, v.log, NoReturn, Exc("TypeError", "'<=' not supported"))
            ELSE IF positive = "True"
            THEN Result(v.calls, v.log, NoReturn,
                        Exc("ValueError",
                            "Quantity, stop price, and limit price must be positive"))
            ELSE create_order(v,
                              stop_limit_kwargs(sym, sd, quantity, stop_price, limit_price),
                              env.create,
                              <<Info("Placing STOP_LIMIT order"), Info("Stop Price, Limit Price")>>)
    IN  order_except(body, "Unexpected error placing stop-limit order")

\* BasicBot.get_open_orders: one futures_get_open_orders call, with the
\* upper-cased symbol when one is given; any exception gives []
get_open_orders(symbol, open) ==
    LET failed(calls, e) ==
            Result(calls, <<Error("Error getting open orders", e.msg)>>, PyList(<<>>), NoExc)
        answered(calls) ==
            IF ~open.ok THEN failed(calls, open.exc)
            ELSE IF open.value.t # "list"
            THEN failed(calls, Exc("TypeError", "object has no len()"))
            ELSE Result(calls, <<Info("Retrieved open orders")>>, open.value, NoExc)
    IN  IF truthy(symbol)
        THEN IF ~IsStr(symbol) THEN failed(<<>>, no_upper(symbol))
             ELSE answered(<<Call("futures_get_open_orders",
                                  [symbol |-> PyStr(upper(symbol.s))], open)>>)
        ELSE answered(<<Call("futures_get_open_orders", NoKwargs, open)>>)

\* BasicBot.cancel_order: one futures_cancel_order call; True when it returns
cancel_order(symbol, order_id, cancel) ==
    LET failed(calls, e) ==
            Result(calls, <<Error("Error cancelling order", e.msg)>>, PyBool(FALSE), NoExc)
    IN  IF ~IsStr(symbol) THEN failed(<<>>, no_upper(symbol))
        ELSE LET call == Call("futures_cancel_order",
                              [symbol |-> PyStr(upper(symbol.s)), orderId |-> order_id],
                              cancel)
             IN  IF ~cancel.ok THEN failed(<<call>>, cancel.exc)
                 ELSE Result(<<call>>, <<Info("Order cancelled successfully")>>,
                             PyBool(TRUE), NoExc)

\* BasicBot._test_connection: futures_account, then account.get(...); an
\* exception is logged and re-raised
_test_connection(account) ==
    LET call == Call("futures_account", NoKwargs, account) IN
    IF ~account.ok
    THEN Result(<<call>>, <<Error("Connection test failed", account.exc.msg)>>,
                NoReturn, account.exc)
    ELSE IF account.value.t # "dict"
    THEN LET e == Exc("AttributeError", "object has no attribute 'get'") IN
         Result(<<call>>, <<Info("Connection successful"),
                            Error("Connection test failed", e.msg)>>, NoReturn, e)
    ELSE Result(<<call>>, <<Info("Connection successful"), Info("Account balance")>>,
                PyNone, NoExc)

\* a variant whose constructor logs a failed connection test without re-raising
BasicBot_swallow(made, account) ==
    IF ~made.ok
    THEN Result(<<>>, <<Error("Failed to initialize bot", made.exc.msg)>>, NoReturn, made.exc)
    ELSE LET t == _test_connection(account) IN
         Result(t.calls, t.log, PyNone, NoExc)

\* BasicBot.__init__: create the client, then test the connection; an
\* exception is logged and re-raised.  made is the outcome of Client(...).
BasicBot(made, account) ==
    IF ~made.ok
    THEN Result(<<>>, <<Error("Failed to initialize bot", made.exc.msg)>>, NoReturn, made.exc)
    ELSE LET t == _test_connection(account)
             lg == <<Info("Bot initialized successfully"), Info("Using TESTNET environment")>>
         IN  IF Raised(t)
             THEN Result(t.calls, lg \o t.log \o <<Error("Failed to initialize bot", t.exc.msg)>>,
                         NoReturn, t.exc)
             ELSE Result(t.calls, lg \o t.log, PyNone, NoExc)

----------------------------------------------------------------------------
(* The command-line front end *)

Digits == <<"0","1","2","3","4","5","6","7","8","9">>

IsDigit(c) == \E i \in 1..Len(Digits) : Digits[i] = c
digit_value(c) == (CHOOSE i \in 1..Len(Digits) : Digits[i] = c) - 1

RECURSIVE digits_value(_)
digits_value(s) ==
    IF s = <<>> THEN 0
    ELSE 10 * digits_value(SubSeq(s, 1, Len(s) - 1)) + digit_value(s[Len(s)])

\* a variant that reads a malformed number as 0.0
float_lenient(text) ==
    LET s == strip(text)
        signed == s # <<>> /\ Head(s) \in {"+", "-"}
        body == IF signed THEN Tail(s) ELSE s
    IN  IF lower(body) = <<"n","a","n">> THEN Returns(PyNaN)
        ELSE IF body # <<>> /\ \A i \in 1..Len(body) : IsDigit(body[i])
        THEN Returns(PyFloat(IF signed /\ Head(s) = "-"
                             THEN 0 - digits_value(body) ELSE digits_value(body)))
        ELSE Returns(PyFloat(0))

\* float(text) on whole numbers and nan: surrounding blanks are ignored, an
\* optional sign is followed by digits; anything else raises ValueError
float(text) ==
    LET s == strip(text)
        signed == s # <<>> /\ Head(s) \in {"+", "-"}
        body == IF signed THEN Tail(s) ELSE s
    IN  IF lower(body) = <<"n","a","n">> THEN Returns(PyNaN)
        ELSE IF body # <<>> /\ \A i \in 1..Len(body) : IsDigit(body[i])
        THEN Returns(PyFloat(IF signed /\ Head(s) = "-"
                             THEN 0 - digits_value(body) ELSE digits_value(body)))
        ELSE Raises(Exc("ValueError", "could not convert string to float"))

KeyboardInterrupt == Exc("KeyboardInterrupt", "")

\* get_user_input: lines are what the user types at the successive prompts,
\* intr the prompt at which Ctrl-C is pressed (0: never).  The result is the
\* returned dict (ok) or the exception that leaves the function, with the
\* number of lines read until then.
get_user_input(lines, intr) ==
    LET order_type == strip(lines[1])
        symbol == upper(strip(lines[2]))
        side_choice == strip(lines[3])
        side == IF side_choice = <<"1">> THEN BUY ELSE SELL
        quantity == float(strip(lines[4]))
        fifth == float(strip(lines[5]))
        sixth == float(strip(lines[6]))
        interrupted(n) == [ok |-> FALSE, exc |-> KeyboardInterrupt, read |-> n]
        failed(f, n) == [ok |-> FALSE, exc |-> f.exc, read |-> n]
        params(price, stop_price, limit_price, n) ==
            [ok |-> TRUE, read |-> n,
             value |-> [order_type |-> PyStr(order_type), symbol |-> PyStr(symbol),
                        side |-> PyStr(side), quantity |-> quantity.value,
                        price |-> price, stop_price |-> stop_price,
                        limit_price |-> limit_price]]
    IN  IF intr \in 1..4 THEN interrupted(intr - 1)
        ELSE IF ~quantity.ok THEN failed(quantity, 4)
        ELSE IF order_type = <<"2">>
        THEN IF intr = 5 THEN interrupted(4)
             ELSE IF ~fifth.ok THEN failed(fifth, 5)
             ELSE params(fifth.value, PyNone, PyNone, 5)
        ELSE IF order_type = <<"3">>
        THEN IF intr = 5 THEN interrupted(4)
             ELSE IF ~fifth.ok THEN failed(fifth, 5)
             ELSE IF intr = 6 THEN interrupted(5)
             ELSE IF ~sixth.ok THEN failed(sixth, 6)
             ELSE params(PyNone, fifth.value, sixth.value, 6)
        ELSE params(PyNone, PyNone, PyNone, 4)

\* a wrapper invocation as recorded in  last
Invocation(method, args, r) ==
    [method |-> method, args |-> args, calls |-> r.calls, ret |-> r.ret, exc |-> r.exc,
     log |-> r.log]

NoInvocation == Invocation("none", <<>>, Result(<<>>, <<>>, PyNone, NoExc))

\* a variant whose last branch is a plain else: every choice other than
\* '1' and '2' places a stop-limit order
dispatch_else(p, env) ==
    IF p.order_type = PyStr(<<"1">>)
    THEN Invocation("place_market_order", <<p.symbol, p.side, p.quantity>>,
                    place_market_order(p.symbol, p.side, p.quantity, env))
    ELSE IF p.order_type = PyStr(<<"2">>)
    THEN Invocation("place_limit_order", <<p.symbol, p.side, p.quantity, p.price>>,
                    place_limit_order(p.symbol, p.side, p.quantity, p.price, env))
    ELSE Invocation("place_stop_limit_order",
                    <<p.symbol, p.side, p.quantity, p.stop_price, p.limit_price>>,
                    place_stop_limit_order(p.symbol, p.side, p.quantity,
                                           p.stop_price, p.limit_price, env))

\* the if/elif chain of main's loop body
dispatch(p, env) ==
    IF p.order_type = PyStr(<<"1">>)
    THEN Invocation("place_market_order", <<p.symbol, p.side, p.quantity>>,
                    place_market_order(p.symbol, p.side, p.quantity, env))
    ELSE IF p.order_type = PyStr(<<"2">>)
    THEN Invocation("place_limit_order", <<p.symbol, p.side, p.quantity, p.price>>,
                    place_limit_order(p.symbol, p.side, p.quantity, p.price, env))
    ELSE IF p.order_type = PyStr(<<"3">>)
    THEN Invocation("place_stop_limit_order",
                    <<p.symbol, p.side, p.quantity, p.stop_price, p.limit_price>>,
                    place_stop_limit_order(p.symbol, p.side, p.quantity,
                                           p.stop_price, p.limit_price, env))
    ELSE Invocation("none", <<>>,
                    Result(<<>>, <<Error("Invalid order type selected", "")>>, PyNone, NoExc))

\* the test on the answer to 'Place another order? (y/n)'
continue_trading(answer) == lower(strip(answer)) = <<"y">>

\* main's  except Exception  handler: log the fatal error, sys.exit(1)
Fatal(e) == Error("Fatal error", e.msg)

----------------------------------------------------------------------------
(* Inputs: what callers pass, what the user types, what the exchange answers *)

BTCUSDT == <<"B","T","C","U","S","D","T">>
ETHUSDT == <<"E","T","H","U","S","D","T">>
DOGE == <<"D","O","G","E">>

SymbolArgs == {PyStr(BTCUSDT), PyStr(lower(BTCUSDT)), PyStr(DOGE), PyNone}
SideArgs == {PyStr(BUY), PyStr(lower(SELL)), PyStr(<<"H","O","L","D">>), PyNone}
NumArgs == {PyFloat(n) : n \in -1..MaxNum} \cup {PyNaN, PyNone}
OptSymbolArgs == SymbolArgs \cup {PyStr(<<>>), PyInt(1)}
OrderIdArgs == {PyInt(1), PyNone}

OrderResponses ==
    {[t |-> "dict", orderId |-> PyInt(1)]}
    \cup {[t |-> "dict", orderId |-> PyInt(1), updateTime |-> u] :
            u \in {PyInt(MaxNum), PyNone, PyStr(<<"x">>)}}

InfoResults ==
    {Returns([t |-> "dict", symbols |-> <<BTCUSDT, ETHUSDT>>]), Returns([t |-> "dict"])}
    \cup {Raises(e) : e \in RemoteExceptions}
CreateResults == {Returns(o) : o \in OrderResponses} \cup {Raises(e) : e \in RemoteExceptions}
OpenResults ==
    {Returns(PyList(<<>>)), Returns(PyList(<<[t |-> "dict", orderId |-> PyInt(1)]>>)),
     Returns(PyNone)}
    \cup {Raises(e) : e \in RemoteExceptions}
CancelResults ==
    {Returns([t |-> "dict", orderId |-> PyInt(1)])} \cup {Raises(e) : e \in RemoteExceptions}
ClientResults == {Returns("handle"), Raises(Exc("ValueError", "bad credentials"))}
AccountResults ==
    {Returns([t |-> "dict", totalWalletBalance |-> PyStr(<<"1">>)]), Returns(PyNone)}
    \cup {Raises(e) : e \in RemoteExceptions}

Envs == [info : InfoResults, create : CreateResults]

\* the text of a whole number, as typed
text_of(n) == IF n < 0 THEN <<"-", Digits[1 - n]>> ELSE <<Digits[n + 1]>>

OrderTypeLines == {<<"1">>, <<"2">>, <<" ", "3", " ">>, <<"4">>}
SymbolLines == {lower(BTCUSDT), <<" ">> \o DOGE}
SideLines == {<<"1">>, <<"2">>, <<"b">>}
NumLines ==
    {text_of(n) : n \in -1..MaxNum}
    \cup {<<" ", "1", " ">>, <<"n","a","n">>, <<"a","b","c">>}
AnswerLines == {<<"y">>, <<" ", "Y", " ">>, <<"n">>, <<"y","e","s">>, <<>>}
PromptCount == 6

----------------------------------------------------------------------------
(* State machine *)

NoParams == PyNone
NotTyped == [lines |-> <<>>, intr |-> 0]

\* the effect of running the constructor on the bot's state
Constructed(made, r) ==
    /\ client' = IF made.ok THEN made.value ELSE client
    /\ clientCount' = clientCount + 1
    /\ accountOk' = \E i \in 1..Len(r.calls) :
                        r.calls[i].api = "futures_account" /\ r.calls[i].res.ok

InitCommon ==
    /\ client = "unset"
    /\ clientCount = 0
    /\ accountOk = FALSE
    /\ order_params = NoParams
    /\ typed = NotTyped
    /\ exitStatus = -1
    /\ last = NoInvocation
    /\ log = <<>>

(* The wrapper driven directly by a caller *)

Init == InitCommon /\ pc = "new"

\* bot = BasicBot(api_key, api_secret): on an exception there is no object
Construct ==
    /\ pc = "new"
    /\ \E made \in ClientResults, account \in AccountResults :
         LET r == BasicBot(made, account) IN
         /\ Constructed(made, r)
         /\ pc' = IF Raised(r) THEN "noobject" ELSE "lib"
         /\ last' = Invocation("__init__", <<>>, r)
         /\ log' = r.log
    /\ UNCHANGED <<order_params, typed, exitStatus>>

\* a caller invokes one method at a time and gets its result back
Invoke(inv) ==
    /\ pc' = "returned"
    /\ last' = inv
    /\ log' = inv.log
    /\ UNCHANGED <<client, clientCount, accountOk, order_params, typed, exitStatus>>

PlaceMarketOrder ==
    /\ pc = "lib"
    /\ \E symbol \in SymbolArgs, side \in SideArgs, quantity \in NumArgs, env \in Envs :
           Invoke(Invocation("place_market_order", <<symbol, side, quantity>>,
                             place_market_order(symbol, side, quantity, env)))

PlaceLimitOrder ==
    /\ pc = "lib"
    /\ \E symbol \in SymbolArgs, side \in SideArgs, quantity \in NumArgs, price \in NumArgs,
          env \in Envs :
           Invoke(Invocation("place_limit_order", <<symbol, side, quantity, price>>,
                             place_limit_order(symbol, side, quantity, price, env)))

PlaceStopLimitOrder ==
    /\ pc = "lib"
    /\ \E symbol \in SymbolArgs, side \in SideArgs, quantity \in NumArgs,
          stop_price \in NumArgs, limit_price \in NumArgs, env \in Envs :
           Invoke(Invocation("place_stop_limit_order",
                             <<symbol, side, quantity, stop_price, limit_price>>,
                             place_stop_limit_order(symbol, side, quantity,
                                                    stop_price, limit_price, env)))

GetOpenOrders ==
    /\ pc = "lib"
    /\ \E symbol \in OptSymbolArgs, open \in OpenResults :
           Invoke(Invocation("get_open_orders", <<symbol>>, get_open_orders(symbol, open)))

CancelOrder ==
    /\ pc = "lib"
    /\ \E symbol \in SymbolArgs, order_id \in OrderIdArgs, cancel \in CancelResults :
           Invoke(Invocation("cancel_order", <<symbol, order_id>>,
                             cancel_order(symbol, order_id, cancel)))

\* the caller has the result and may invoke the next method
Returned ==
    /\ pc = "returned"
    /\ pc' = "lib"
    /\ last' = NoInvocation
    /\ log' = <<>>
    /\ UNCHANGED <<client, clientCount, accountOk, order_params, typed, exitStatus>>

Next ==
    \/ Construct
    \/ PlaceMarketOrder
    \/ PlaceLimitOrder
    \/ PlaceStopLimitOrder
    \/ GetOpenOrders
    \/ CancelOrder
    \/ Returned

Spec == Init /\ [][Next]_vars

(* The program: main() *)

MainInit == InitCommon /\ pc = "start"

\* leave main: through sys.exit(1), or by returning (status 0)
Exit(status, lg) ==
    /\ pc' = "exit"
    /\ exitStatus' = status
    /\ log' = lg

\* bot = BasicBot(...) inside main's try block
MainStart ==
    /\ pc = "start"
    /\ \E made \in ClientResults, account \in AccountResults :
         LET r == BasicBot(made, account) IN
         /\ Constructed(made, r)
         /\ last' = Invocation("__init__", <<>>, r)
         /\ IF Raised(r)
            THEN Exit(1, r.log \o <<Fatal(r.exc)>>)
            ELSE pc' = "input" /\ log' = r.log /\ UNCHANGED exitStatus
    /\ UNCHANGED <<order_params, typed>>

\* order_params = get_user_input()
GetUserInput ==
    /\ pc = "input"
    /\ \E l1 \in OrderTypeLines, l2 \in SymbolLines, l3 \in SideLines,
          l4 \in NumLines, l5 \in NumLines, l6 \in NumLines, intr \in 0..PromptCount :
         LET got == get_user_input(<<l1, l2, l3, l4, l5, l6>>, intr) IN
         /\ typed' = [lines |-> SubSeq(<<l1, l2, l3, l4, l5, l6>>, 1, got.read),
                      intr |-> IF ~got.ok /\ got.exc = KeyboardInterrupt
                               THEN got.read + 1 ELSE 0]
         /\ IF got.ok
            THEN /\ order_params' = got.value
                 /\ pc' = "dispatch"
                 /\ log' = <<>>
                 /\ UNCHANGED exitStatus
            ELSE /\ order_params' = NoParams
                 /\ IF got.exc = KeyboardInterrupt
                    THEN Exit(0, <<Info("Bot stopped by user")>>)
                    ELSE Exit(1, <<Fatal(got.exc)>>)
    /\ last' = NoInvocation
    /\ UNCHANGED <<client, clientCount, accountOk>>

\* the if/elif chain: call the wrapper method of the chosen order type
Dispatch ==
    /\ pc = "dispatch"
    /\ \E env \in Envs :
         LET inv == dispatch(order_params, env) IN
         /\ last' = inv
         /\ IF inv.exc # NoExc
            THEN Exit(1, inv.log \o <<Fatal(inv.exc)>>)
            ELSE pc' = "ask" /\ log' = inv.log /\ UNCHANGED exitStatus
    /\ UNCHANGED <<client, clientCount, accountOk, order_params, typed>>

\* input('Place another order? (y/n): ')
AskContinue ==
    /\ pc = "ask"
    /\ \/ \E answer \in AnswerLines :
            IF continue_trading(answer)
            THEN /\ pc' = "input"
                 /\ log' = <<>>
                 /\ last' = NoInvocation
                 /\ order_params' = NoParams
                 /\ typed' = NotTyped
                 /\ UNCHANGED exitStatus
            ELSE /\ Exit(0, <<Info("Thank you for using the Trading Bot!")>>)
                 /\ UNCHANGED <<last, order_params, typed>>
       \/ /\ Exit(0, <<Info("Bot stopped by user")>>)
          /\ UNCHANGED <<last, order_params, typed>>
    /\ UNCHANGED <<client, clientCount, accountOk>>

MainNext ==
    \/ MainStart
    \/ GetUserInput
    \/ Dispatch
    \/ AskContinue

MainSpec == MainInit /\ [][MainNext]_vars

----------------------------------------------------------------------------
(* Vocabulary of the properties *)

PlaceMethods == {"place_market_order", "place_limit_order", "place_stop_limit_order"}
PublicMethods == PlaceMethods \cup {"get_open_orders", "cancel_order"}

InLog(e, lg) == \E i \in 1..Len(lg) : lg[i] = e
LogsError(lg) == \E i \in 1..Len(lg) : lg[i].level = "ERROR"

\* the positions of the order-creation requests among an invocation's calls
CreateCalls(inv) == {i \in 1..Len(inv.calls) : inv.calls[i].api = "futures_create_order"}
LookupCalls(inv) == {i \in 1..Len(inv.calls) : inv.calls[i].api = "futures_exchange_info"}

StrictlyPositive(x) == x.t \in {"float", "int"} /\ "v" \in DOMAIN x /\ x.v > 0

\* the upper-cased symbol argument is in the list the lookup returned
SymbolListed(inv) ==
    /\ IsStr(inv.args[1])
    /\ \E i \in LookupCalls(inv) :
         /\ inv.calls[i].res.ok
         /\ "symbols" \in DOMAIN inv.calls[i].res.value
         /\ \E k \in 1..Len(inv.calls[i].res.value.symbols) :
              inv.calls[i].res.value.symbols[k] = upper(inv.args[1].s)

SideValid(inv) == IsStr(inv.args[2]) /\ upper(inv.args[2].s) \in {BUY, SELL}

AmountsPositive(inv) == \A i \in 3..Len(inv.args) : StrictlyPositive(inv.args[i])

AllValid(inv) == SymbolListed(inv) /\ SideValid(inv) /\ AmountsPositive(inv)

----------------------------------------------------------------------------
(* C1: an order-creation request is sent only if every validation passed:   *)
(* the upper-cased symbol is in the list the exchange-info lookup returned,  *)
(* the upper-cased side is BUY or SELL, and the quantity and every price     *)
(* argument are strictly positive.                                           *)
C1_OrderOnlyIfValid ==
    (last.method \in PlaceMethods /\ CreateCalls(last) # {}) => AllValid(last)

C3_NoExceptionEscapes ==
    last.method \in PublicMethods =>
        /\ last.exc = NoExc
        /\ (\E i \in 1..Len(last.calls) : ~last.calls[i].res.ok) =>
              /\ LogsError(last.log)
              /\ last.method \in PlaceMethods => last.ret = PyNone
              /\ last.method = "get_open_orders" => last.ret = PyList(<<>>)
              /\ last.method = "cancel_order" => last.ret = PyBool(FALSE)
        /\ last.method = "cancel_order" =>
              (last.ret = PyBool(TRUE)
                 <=> \E i \in 1..Len(last.calls) :
                        last.calls[i].api = "futures_cancel_order" /\ last.calls[i].res.ok)

(* C4: when the order-creation request completed on the exchange the        *)
(* placement method returns that response unchanged; None is returned only   *)
(* when no order was created.                                                *)
C4_ReturnsOrderResponse ==
    last.method \in PlaceMethods =>
        \A i \in CreateCalls(last) :
            last.calls[i].res.ok => last.ret = last.calls[i].res.value

(* C8: the order-creation request carries the caller's values: symbol and  *)
(* side upper-cased, quantity unchanged; a market order has type MARKET and  *)
(* neither price nor timeInForce; a limit order type LIMIT, timeInForce GTC  *)
(* and the given price; a stop-limit order type STOP, timeInForce GTC,       *)
(* price = limit_price and stopPrice = stop_price.                           *)
C8_RequestCarriesArguments ==
    last.method \in PlaceMethods =>
        \A i \in CreateCalls(last) :
            LET k == last.calls[i].kwargs
                a == last.args
                common == /\ k.symbol = PyStr(upper(a[1].s))
                          /\ k.side = PyStr(upper(a[2].s))
                          /\ k.quantity = a[3]
            IN  CASE last.method = "place_market_order" ->
                        /\ DOMAIN k = {"symbol", "side", "type", "quantity"}
                        /\ common
                        /\ k.type = PyStr(MARKET)
                  [] last.method = "place_limit_order" ->
                        /\ DOMAIN k = {"symbol", "side", "type", "timeInForce",
                                       "quantity", "price"}
                        /\ common
                        /\ k.type = PyStr(LIMIT)
                        /\ k.timeInForce = PyStr(GTC)
                        /\ k.price = a[4]
                  [] last.method = "place_stop_limit_order" ->
                        /\ DOMAIN k = {"symbol", "side", "type", "timeInForce",
                                       "quantity", "price", "stopPrice"}
                        /\ common
                        /\ k.type = PyStr(STOP)
                        /\ k.timeInForce = PyStr(GTC)
                        /\ k.stopPrice = a[4]
                        /\ k.price = a[5]

C8_StopLimitRequestSent ==
    /\ last.method = "place_stop_limit_order"
    /\ last.args[1] = PyStr(<<"b","t","c","u","s","d","t">>)
    /\ last.args[4] # last.args[5]
    /\ \E i \in CreateCalls(last) :
          /\ last.calls[i].kwargs.symbol = PyStr(BTCUSDT)
          /\ last.calls[i].res.ok

----------------------------------------------------------------------------
(* Properties of main() *)

\* the parameters of this iteration have been dispatched
Dispatched == order_params # NoParams /\ pc # "dispatch"

\* what the user typed at prompt n, as a number
TypedNumber(n) == float(typed.lines[n]).value

CreateTypeIs(inv, type) ==
    \A i \in CreateCalls(inv) : inv.calls[i].kwargs.type = PyStr(type)

(* C5: the collected parameters go to the one wrapper method the choice     *)
(* names: '1' place_market_order(symbol, side, quantity), '2'               *)
(* place_limit_order(symbol, side, quantity, price), '3'                     *)
(* place_stop_limit_order(symbol, side, quantity, stop_price, limit_price);  *)
(* each price passed is the number the user typed, never None; any other     *)
(* choice calls no method, sends no request and logs 'Invalid order type     *)
(* selected'.                                                                *)
C5_DispatchByOrderType ==
    Dispatched =>
        LET p == order_params IN
        CASE p.order_type = PyStr(<<"1">>) ->
                /\ last.method = "place_market_order"
                /\ last.args = <<p.symbol, p.side, p.quantity>>
                /\ CreateTypeIs(last, MARKET)
          [] p.order_type = PyStr(<<"2">>) ->
                /\ last.method = "place_limit_order"
                /\ last.args = <<p.symbol, p.side, p.quantity, p.price>>
                /\ p.price # PyNone /\ p.price = TypedNumber(5)
                /\ CreateTypeIs(last, LIMIT)
          [] p.order_type = PyStr(<<"3">>) ->
                /\ last.method = "place_stop_limit_order"
                /\ last.args = <<p.symbol, p.side, p.quantity, p.stop_price, p.limit_price>>
                /\ p.stop_price # PyNone /\ p.stop_price = TypedNumber(5)
                /\ p.limit_price # PyNone /\ p.limit_price = TypedNumber(6)
                /\ CreateTypeIs(last, STOP)
          [] OTHER ->
                /\ last.method = "none"
                /\ last.calls = <<>>
                /\ InLog(Error("Invalid order type selected", ""), last.log)

C5_StopLimitDispatched ==
    /\ pc = "ask"
    /\ last.method = "place_stop_limit_order"
    /\ CreateCalls(last) # {}
    /\ order_params.stop_price # order_params.limit_price

(* C6: no order is requested before a successful connection test.  The      *)
(* constructor creates the client once and calls futures_account; when       *)
(* either raises, the exception is logged and re-raised, main logs a fatal   *)
(* error and exits with status 1 without prompting or sending a request.     *)
(* Every order-creation request follows a successful futures_account call    *)
(* and the client handle is never replaced.                                  *)
C6_ConnectionTestFirst ==
    /\ clientCount <= 1
    /\ client # "unset" => clientCount = 1
    /\ CreateCalls(last) # {} => accountOk /\ client # "unset"
    /\ pc \in {"input", "dispatch", "ask"} => accountOk /\ client # "unset"
    /\ ~accountOk =>
          /\ pc \in {"start", "exit"}
          /\ typed = NotTyped
          /\ order_params = NoParams
    /\ (last.method = "__init__" /\ last.exc # NoExc) =>
          /\ pc = "exit" /\ exitStatus = 1
          /\ InLog(Error("Failed to initialize bot", last.exc.msg), log)
          /\ InLog(Fatal(last.exc), log)
          /\ typed = NotTyped
          /\ CreateCalls(last) = {}

C6_OrderAfterConnection ==
    /\ pc = "ask"
    /\ CreateCalls(last) # {}
    /\ accountOk

(* C7: a failed order never ends the session by itself: once an iteration's *)
(* parameters are dispatched the program asks 'Place another order?' and     *)
(* ends only normally (status 0) on an answer other than 'y'; an iteration   *)
(* sends at most one order-creation request.                                 *)
C7_FailedOrderKeepsSession ==
    Dispatched =>
        /\ pc = "ask" \/ (pc = "exit" /\ exitStatus = 0)
        /\ Cardinality(CreateCalls(last)) <= 1

\* the text of a number float() accepts
WellFormed(line) ==
    strip(line) \in {text_of(n) : n \in -1..MaxNum} \cup {<<"n","a","n">>}

(* C9: a number that cannot be parsed (quantity, limit price or stop price) *)
(* ends the program: the iteration is not dispatched, no request is sent,    *)
(* the exception is logged as a fatal error by main's outer handler and the  *)
(* exit status is 1, without 'Place another order?' being asked.             *)
C9_MalformedNumberIsFatal ==
    (\E n \in 4..Len(typed.lines) : ~WellFormed(typed.lines[n])) =>
        /\ pc = "exit" /\ exitStatus = 1
        /\ ~WellFormed(typed.lines[Len(typed.lines)])
        /\ order_params = NoParams
        /\ last = NoInvocation
        /\ log = <<Fatal(Exc("ValueError", "could not convert string to float"))>>

C9_MalformedPriceTyped ==
    /\ Len(typed.lines) = 5
    /\ typed.lines[5] = <<"a","b","c">>
    /\ pc = "exit"
    /\ exitStatus = 1

====
